---- MODULE Spec2Model ----
(***************************************************************************)
(* Golf-ball trajectory integrator (gptgolf/src/physics).                  *)
(*                                                                         *)
(* The C++ code computes in IEEE doubles.  The model computes the same     *)
(* expressions, in the same order, in decimal fixed point on 32-bit        *)
(* integers.  Every quantity carries a scale, written Qn for "value times  *)
(* 10^n":                                                                  *)
(*   positions, velocities, forces ............ Q7  (x, y, vx, vy, relV)   *)
(*   time steps ................................ Q9  (nanoseconds)          *)
(*   accelerations, factors, coefficients,                                 *)
(*   density, temperature, elapsed time ........ Q6                        *)
(*   spin rate, pressure, Reynolds number ...... Q3                        *)
(*   altitude (atmosphere) ..................... Q4                        *)
(* The values NaN and +Inf that the doubles can take are modelled          *)
(* explicitly where the code can produce them (x / initialSpeed and the    *)
(* Magnus force).                                                          *)
(***************************************************************************)
EXTENDS Integers, Sequences, FiniteSets, TLC

(***************************************************************************)
(* Fixed-point arithmetic                                                  *)
(***************************************************************************)
ONE == 10^6

Abs(a) == IF a < 0 THEN -a ELSE a

Sgn(a) == IF a < 0 THEN -1 ELSE 1

Min(a, b) == IF a < b THEN a ELSE b

Max(a, b) == IF a > b THEN a ELSE b

\* round(a*b / 1000^k) for a, b >= 0 and k in {2, 3}, on three-digit limbs
MulU(a, b, k) ==
  LET a0 == a % 1000
      a1 == (a \div 1000) % 1000
      a2 == a \div 1000000
      b0 == b % 1000
      b1 == (b \div 1000) % 1000
      b2 == b \div 1000000
      p0 == a0*b0
      p1 == a0*b1 + a1*b0
      p2 == a0*b2 + a1*b1 + a2*b0
      p3 == a1*b2 + a2*b1
      p4 == a2*b2
  IN IF k = 2
     THEN p4*1000000 + p3*1000 + p2 + ((p1 + 500 + (p0 \div 1000)) \div 1000)
     ELSE p4*1000 + p3 + ((p2 + 500 + ((p1 + (p0 \div 1000)) \div 1000)) \div 1000)

\* a*b / 10^6 : the product of a Qm and a Q6 value is a Qm value
Mul(a, b) == Sgn(a) * Sgn(b) * MulU(Abs(a), Abs(b), 2)

\* a*b / 10^9 : the product of a Qm value and a time in nanoseconds
MulT(a, b) == Sgn(a) * Sgn(b) * MulU(Abs(a), Abs(b), 3)

\* floor(a*b / 10^6) for 0 <= a < 2.1*10^6 and 0 <= b <= 10^6
MulF(a, b) == ((a * (b \div 1000)) + ((a * (b % 1000)) \div 1000)) \div 1000

DivMax == 2 * 10^8

RECURSIVE DivDigits(_, _, _, _)
DivDigits(q, r, b, i) ==
  IF i = 0 THEN q
  ELSE DivDigits(q*10 + ((r*10) \div b), (r*10) % b, b, i - 1)

\* floor(a * 10^6 / b) for a >= 0, b > 0, by long division
RECURSIVE DivU(_, _)
DivU(a, b) ==
  IF b > DivMax THEN DivU(a \div 16, b \div 16)
  ELSE DivDigits(a \div b, a % b, b, 6)

\* a / b as a Q6 ratio of two values of the same scale
Div(a, b) == Sgn(a) * Sgn(b) * DivU(Abs(a), Abs(b))

LN2 == 693147

\* exp(r) for 0 <= r < ln 2 (Q6), Taylor series in Horner form
RECURSIVE ExpHorner(_, _, _)
ExpHorner(t, r, n) ==
  IF n = 0 THEN t ELSE ExpHorner(ONE + (MulF(t, r) \div n), r, n - 1)

ExpFrac(r) == ExpHorner(ONE, r, 10)

\* std::exp : exp(u) for u in Q6; the result is Q6 when s = 1 and Q3 when
\* s = 1000
ExpS(u, s) ==
  LET k == u \div LN2
      m == ExpFrac(u - k*LN2)
  IN IF k >= 0
     THEN IF s = 1 THEN m * 2^k
          ELSE IF k >= 3 THEN (m * 2^(k - 3)) \div 125
          ELSE (m * 2^k) \div 1000
     ELSE IF -k > 30 THEN 0
     ELSE (m \div s) \div 2^(-k)

Exp(u) == ExpS(u, 1)

RECURSIVE Log2Floor(_)
Log2Floor(n) == IF n < 2 THEN 0 ELSE 1 + Log2Floor(n \div 2)

RECURSIVE LnHorner(_, _, _)
LnHorner(t, z2, d) ==
  IF d < 1 THEN t ELSE LnHorner((ONE \div d) + MulF(t, z2), z2, d - 2)

\* ln(n) in Q6 for an integer n >= 1: n = 2^e * m, ln m = 2 atanh((m-1)/(m+1))
LnInt(n) ==
  LET e == Log2Floor(n)
      p == 2^e
      z == IF e >= 29 THEN DivU((n - p) \div 4, (n \div 4) + (p \div 4))
           ELSE DivU(n - p, n + p)
      t == LnHorner(ONE \div 9, MulF(z, z), 7)
  IN e*LN2 + 2*MulF(t, z)

LN_1E3 == LnInt(10^3)

LN_1E4 == LnInt(10^4)

LN_1E6 == LnInt(10^6)

\* std::pow(v, p) for v >= 0 given at scale exp(lnScale), p in Q6, result Q6
PowS(v, lnScale, p) ==
  IF v = 0 THEN 0 ELSE Exp(Mul(p, LnInt(v) - lnScale))

\* std::pow on a Q6 base
Pow(v, p) == PowS(v, LN_1E6, p)

RECURSIVE Newton(_, _, _)
Newton(q, s, i) ==
  IF i = 0 THEN q ELSE Newton((q + DivU(s, q)) \div 2, s, i - 1)

\* sqrt of a Q6 value in [1, 4]
SqrtQ(s) == Newton((s + ONE) \div 2, s, 4)

\* sqrt(a*a + b*b) of two values of the same scale
Hypot(a, b) ==
  LET m == Max(Abs(a), Abs(b))
      n == Min(Abs(a), Abs(b))
      r == DivU(n, m)
  IN IF m = 0 THEN 0 ELSE Mul(m, SqrtQ(ONE + MulF(r, r)))

\* cos of the angles (whole degrees, first quadrant) the inputs use, Q6
CosTable ==
  [a \in {0, 5, 10, 15, 30, 45, 60, 75, 80, 85, 90} |->
     CASE a = 0 -> 1000000 [] a = 5 -> 996195 [] a = 10 -> 984808
       [] a = 15 -> 965926 [] a = 30 -> 866025 [] a = 45 -> 707107
       [] a = 60 -> 500000 [] a = 75 -> 258819 [] a = 80 -> 173648
       [] a = 85 -> 87156 [] a = 90 -> 0]

\* cos(deg * M_PI / 180.0)
CosDeg(deg) ==
  LET a == deg % 360
      b == IF a > 180 THEN 360 - a ELSE a
  IN IF b > 90 THEN -CosTable[180 - b] ELSE CosTable[b]

\* sin(deg * M_PI / 180.0)
SinDeg(deg) == CosDeg(deg - 90)

(***************************************************************************)
(* Doubles that can be non-finite: [k |-> "fin", v |-> value],             *)
(* [k |-> "nan"] and [k |-> "inf"] (only +Inf arises)                       *)
(***************************************************************************)
Fin(v) == [k |-> "fin", v |-> v]

NaN == [k |-> "nan", v |-> 0]

Inf == [k |-> "inf", v |-> 0]

\* a / b on doubles, a >= 0 and b >= 0 of the same scale: 0/0 is NaN and
\* a/0 is +Inf
DivDouble(a, b) ==
  IF b = 0 THEN (IF a = 0 THEN NaN ELSE Inf) ELSE Fin(Div(a, b))

(***************************************************************************)
(* Physical constants (physics.h)                                          *)
(***************************************************************************)
GRAVITY == 9810000

STANDARD_AIR_DENSITY == 1225000

\* 1.81e-5, Q10
AIR_VISCOSITY == 181000

\* 0.0459 kg, Q7
BALL_MASS == 459000

\* 0.0213 m, Q9
BALL_RADIUS == 21300000

M_PI == 3141593

\* M_PI * BALL_RADIUS * BALL_RADIUS = 1.42531e-3 m^2, Q9
BALL_AREA == 1425310

BASE_DRAG_COEFFICIENT == 470000

BASE_LIFT_COEFFICIENT == 250000

\* 4.0e4, Q3
CRITICAL_REYNOLDS == 40000000

\* 4.0e5, Q3
TURBULENT_REYNOLDS == 400000000

SPIN_DECAY_RATE == 45000

\* 0.0014 m, Q9
SURFACE_ROUGHNESS == 1400000

MAX_LIFT_COEFFICIENT == 350000

(***************************************************************************)
(* Atmospheric model (atmosphere.cpp): altitude Q4, temperature Q6,        *)
(* pressure Q3, lapse rate Q8                                              *)
(***************************************************************************)
AtmosphericLayer(h, t, p, l) ==
  [baseAltitude |-> h, temperature |-> t, pressure |-> p, lapseRate |-> l]

\* the global standardAtmosphere, filled by the constructor; indices from 0
layersOffset ==
  [i \in 0..4 |->
     CASE i = 0 -> AtmosphericLayer(0, 288150000, 101325000, -650000)
       [] i = 1 -> AtmosphericLayer(110000000, 216650000, 22632100, 0)
       [] i = 2 -> AtmosphericLayer(200000000, 226650000, 5474890, 100000)
       [] i = 3 -> AtmosphericLayer(320000000, 228650000, 868019, 280000)
       [] i = 4 -> AtmosphericLayer(470000000, 270650000, 110906, 0)]
layers ==
  [i \in 0..4 |->
     CASE i = 0 -> AtmosphericLayer(0, 288150000, 101325000, -650000)
       [] i = 1 -> AtmosphericLayer(110000000, 216650000, 22632100, 0)
       [] i = 2 -> AtmosphericLayer(200000000, 216650000, 5474890, 100000)
       [] i = 3 -> AtmosphericLayer(320000000, 228650000, 868019, 280000)
       [] i = 4 -> AtmosphericLayer(470000000, 270650000, 110906, 0)]

layersSize == 5

\* gas constant R = 287.058 and g = 9.80665 of the model, Q6
R == 287058000

g == 9806650

RECURSIVE findLayerFrom(_, _)
findLayerFrom(i, altitude) ==
  IF i < layersSize
  THEN IF altitude < layers[i].baseAltitude THEN i - 1
       ELSE findLayerFrom(i + 1, altitude)
  ELSE layersSize - 1

findLayerIndexFromSecond(altitude) == findLayerFrom(2, altitude)
findLayerIndex(altitude) == findLayerFrom(1, altitude)

getLayer(altitude) == layers[findLayerIndex(altitude)]

getTemperature(altitude) ==
  LET layer == getLayer(altitude)
      deltaH == altitude - layer.baseAltitude
  IN layer.temperature + Mul(layer.lapseRate, deltaH)

getPressure(altitude) ==
  LET layer == getLayer(altitude)
      deltaH == altitude - layer.baseAltitude
      T == getTemperature(altitude)
  IN IF Abs(layer.lapseRate) < 1
     THEN \* isothermal layer: pressure * exp(-g * deltaH / (R * T))
          Mul(layer.pressure,
              Exp(Div(-Mul(g, deltaH), Mul(R, T \div 1000) * 10)))
     ELSE \* pressure * pow(T / temperature, -g / (R * lapseRate))
          LET exponent == Div(-g, Mul(R, layer.lapseRate) \div 100)
          IN Mul(layer.pressure,
                 Exp(Mul(exponent, LnInt(T) - LnInt(layer.temperature))))

\* getDensity(altitude, nullptr): pressure / (R * temperature)
getDensity(altitude) ==
  LET temperature == getTemperature(altitude)
      pressure == getPressure(altitude)
  IN Div(pressure, Mul(R, temperature \div 1000))

(***************************************************************************)
(* Aerodynamic force model (physics.cpp)                                   *)
(***************************************************************************)
\* getAirDensity(nullptr, altitude), altitude Q7
getAirDensity(altitude) == getDensity(altitude \div 1000)

\* velocity Q7, altitude Q7; result Q3
calculateReynoldsNumber(velocity, altitude) ==
  LET density == getAirDensity(altitude)
  IN Div(Mul(Mul(density, velocity), (2 * BALL_RADIUS) \div 1000), AIR_VISCOSITY)

calculateDragCoefficientSteep(reynoldsNumber) ==
  IF reynoldsNumber < CRITICAL_REYNOLDS THEN BASE_DRAG_COEFFICIENT
  ELSE IF reynoldsNumber > TURBULENT_REYNOLDS
  THEN Mul(BASE_DRAG_COEFFICIENT, 500000)
  ELSE LET t == Div(reynoldsNumber - CRITICAL_REYNOLDS,
                    TURBULENT_REYNOLDS - CRITICAL_REYNOLDS)
       IN Mul(BASE_DRAG_COEFFICIENT, ONE - t)
calculateDragCoefficient(reynoldsNumber) ==
  IF reynoldsNumber < CRITICAL_REYNOLDS THEN BASE_DRAG_COEFFICIENT
  ELSE IF reynoldsNumber > TURBULENT_REYNOLDS
  THEN Mul(BASE_DRAG_COEFFICIENT, 500000)
  ELSE LET t == Div(reynoldsNumber - CRITICAL_REYNOLDS,
                    TURBULENT_REYNOLDS - CRITICAL_REYNOLDS)
       IN Mul(BASE_DRAG_COEFFICIENT, ONE - Mul(500000, t))

\* initialSpin Q3, time a double in seconds (Q6); result a double (Q3)
calculateSpinDecayNone(initialSpin, time) == Fin(initialSpin)
calculateSpinDecay(initialSpin, time) ==
  CASE time.k = "nan" -> NaN
    [] time.k = "inf" -> Fin(0)
    [] OTHER -> Fin(Mul(initialSpin, Exp(-Mul(SPIN_DECAY_RATE, time.v))))

\* spinRate Q3, velocity Q7
calculateLiftCoefficient(spinRate, velocity) ==
  LET spinFactor == Div(Mul(Mul(spinRate, M_PI) \div 30, BALL_RADIUS),
                        velocity \div 10)
      roughnessEffect == ONE + Div(SURFACE_ROUGHNESS, BALL_RADIUS)
      liftCoef == Mul(Mul(BASE_LIFT_COEFFICIENT, spinFactor), roughnessEffect)
  IN Min(liftCoef, MAX_LIFT_COEFFICIENT)

\* spinRate Q3, velocity Q7, spinAxis in whole degrees; result a double (Q7).
\* verticalSpin / currentSpin is 0/0 = NaN when the decayed spin is zero.
calculateMagnusForce(spinRate, velocity, spinAxis, time) ==
  LET currentSpin == calculateSpinDecay(spinRate, time)
      verticalSpin == Mul(currentSpin.v, CosDeg(spinAxis.tilt))
      horizontalSpin == Mul(currentSpin.v, SinDeg(spinAxis.tilt))
      liftCoef == calculateLiftCoefficient(currentSpin.v, velocity)
      forceMagnitude ==
        MulT(Mul(Mul(Mul(Mul(500000, STANDARD_AIR_DENSITY), BALL_AREA),
                     liftCoef), velocity), velocity \div 10)
      verticalForce == Mul(forceMagnitude, Div(verticalSpin, currentSpin.v))
      horizontalForce == Mul(forceMagnitude, Div(horizontalSpin, currentSpin.v))
  IN IF currentSpin.k = "nan" \/ currentSpin.v = 0 THEN NaN
     ELSE Fin(Mul(verticalForce, CosDeg(spinAxis.direction))
              + Mul(horizontalForce, SinDeg(spinAxis.direction)))

\* baseWindSpeed Q7, altitude Q7
getWindGradient(baseWindSpeed, altitude) ==
  IF altitude < 1000000 THEN baseWindSpeed
  ELSE Mul(baseWindSpeed, Pow(altitude \div 100, 143000))

\* the two output parameters as a record
calculateRelativeVelocity(velocityX, velocityY, windSpeed, windAngle) ==
  LET windVx == Mul(windSpeed, CosDeg(windAngle))
      windVy == Mul(windSpeed, SinDeg(windAngle))
  IN [relativeVelX |-> velocityX - windVx, relativeVelY |-> velocityY - windVy]

(***************************************************************************)
(* Validation (physics_validation.h).  A validation function returns or    *)
(* throws PhysicsValidationError; the operators give the what() of the     *)
(* exception as a sequence of words, NoThrow when the function returns.    *)
(***************************************************************************)
NoThrow == <<>>

\* initialSpeed and windSpeed Q7, spinRate Q3, angles in whole degrees
validateLaunchParametersLowerOnly(initialSpeed, launchAngle, spinRate, windSpeed, windAngle) ==
  IF initialSpeed < 0
  THEN <<"Initial", "speed", "cannot", "be", "negative">>
  ELSE IF launchAngle < -90
  THEN <<"Launch", "angle", "must", "be", "between", "-90", "and", "90", "degrees">>
  ELSE IF spinRate < 0
  THEN <<"Spin", "rate", "cannot", "be", "negative">>
  ELSE IF windSpeed < 0
  THEN <<"Wind", "speed", "cannot", "be", "negative">>
  ELSE IF windAngle < 0
  THEN <<"Wind", "angle", "must", "be", "between", "0", "and", "360", "degrees">>
  ELSE <<>>
validateLaunchParameters(initialSpeed, launchAngle, spinRate, windSpeed, windAngle) ==
  IF initialSpeed < 0
  THEN <<"Initial", "speed", "cannot", "be", "negative">>
  ELSE IF initialSpeed > 100 * 10^7
  THEN <<"Initial", "speed", "exceeds", "maximum", "physical", "limit">>
  ELSE IF launchAngle < -90 \/ launchAngle > 90
  THEN <<"Launch", "angle", "must", "be", "between", "-90", "and", "90", "degrees">>
  ELSE IF spinRate < 0
  THEN <<"Spin", "rate", "cannot", "be", "negative">>
  ELSE IF spinRate > 10000 * 10^3
  THEN <<"Spin", "rate", "exceeds", "maximum", "physical", "limit">>
  ELSE IF windSpeed < 0
  THEN <<"Wind", "speed", "cannot", "be", "negative">>
  ELSE IF windSpeed > 50 * 10^7
  THEN <<"Wind", "speed", "exceeds", "maximum", "expected", "value">>
  ELSE IF windAngle < 0 \/ windAngle > 360
  THEN <<"Wind", "angle", "must", "be", "between", "0", "and", "360", "degrees">>
  ELSE NoThrow

TrajectoryPoint(px, py) == [x |-> px, y |-> py]

\* v > m metres for a Q7 value v, without forming m * 10^7
GtMetres(v, m) == (v \div 10^7 > m) \/ (v \div 10^7 = m /\ v % 10^7 > 0)

\* point coordinates Q7 (finite), maxDistance in metres; y < -0.1 or y > 500
validateTrajectoryPoint(point, maxDistance) ==
  IF point.x < 0 \/ GtMetres(point.x, maxDistance)
  THEN <<"Trajectory", "point", "X", "coordinate", "out", "of", "bounds">>
  ELSE IF point.y < -1000000 \/ GtMetres(point.y, 500)
  THEN <<"Trajectory", "point", "Y", "coordinate", "out", "of", "bounds">>
  ELSE NoThrow

\* value a double, minValue and maxValue in the scale of value
validatePhysicalQuantity(value, minValue, maxValue, name) ==
  IF value.k # "fin"
  THEN name \o <<"calculation", "resulted", "in", "non-finite", "value">>
  ELSE IF value.v < minValue \/ value.v > maxValue
  THEN name \o <<"out", "of", "valid", "range">>
  ELSE NoThrow

\* the what() of the first of a sequence of validations that throws
RECURSIVE FirstThrow(_)
FirstThrow(whats) ==
  IF whats = <<>> THEN NoThrow
  ELSE IF Head(whats) # NoThrow THEN Head(whats)
  ELSE FirstThrow(Tail(whats))

(***************************************************************************)
(* TrajectoryResultWithStatus (trajectory.h)                               *)
(***************************************************************************)
\* std::optional<TrajectoryResult>: <<>> or a one-element sequence
nullopt == <<>>

\* the default argument of the constructor's third parameter
DefaultResPartial == <<[trajectory |-> <<>>, distance |-> 0, apex |-> 0]>>
DefaultRes == nullopt

TrajectoryResultWithStatus(s, msg, res) ==
  [status |-> s, errorMessage |-> msg, result |-> res]

\* the catch clauses: the first one that matches the exception's type
Catch(type, what) ==
  IF type = "PhysicsValidationError"
  THEN TrajectoryResultWithStatus("InvalidInput", what, DefaultRes)
  ELSE TrajectoryResultWithStatus("CalculationError",
                                  <<"Calculation", "error:">> \o what, DefaultRes)

(***************************************************************************)
(* calculateTrajectoryWithValidation (trajectory.cpp)                      *)
(***************************************************************************)
\* time steps in nanoseconds
MIN_TIMESTEP == 50000

MAX_TIMESTEP == 3000000

BASE_TIMESTEP == 300000

VELOCITY_SCALE == 45000

ACCEL_SCALE == 150000

\* 0.0002, Q6
SPIN_SCALE == 200

HEIGHT_SCALE == 200000

SMOOTH_FACTOR == 800000

MAX_ITERATIONS == 10000

VARIABLES
  build,           \* which abs the unqualified call of lines 169-170 names
  pending,         \* the calls the client is still to make, in order
  args,            \* the arguments of the current call
  pc,              \* "idle", "loop" (at the while of line 58), "done", or
                   \* "returned" (the legacy wrapper has returned too)
  vx, vy, prevTimeStep, prevVelocity, x, y, prevY, result, timeStep,
  iterationCount,  \* the locals of the call
  ret,             \* the value the last call returned
  raised,          \* where the last call threw: "" / "launch" / "step"
  bodyRuns,        \* how many times the loop body ran in the current call
  flightTime,      \* the time steps of the current call added up, in ns
  log,             \* arguments and returned value of every completed call
  legacy,          \* the value calculateTrajectory returned, if it was the
                   \* wrapper that made the last call
  probe,           \* a direct call of one of the physics functions
  device,          \* the class of the launch monitor: "TrackMan" or "GCQuad"
  deviceIp_, devicePort_, connected_, tracking_, shouldStop_, dataQueue_,
  settings_,       \* the members of the monitor
  dataThread_,     \* the thread the handle owns, 0 when it is not joinable
  threads,         \* position and local data of every thread started
  client,          \* where the calling thread is inside a monitor call
  reply            \* the last monitor call: name, arguments, returned value

vars == <<build, pending, args, pc, vx, vy, prevTimeStep, prevVelocity, x, y,
          prevY, result, timeStep, iterationCount, ret, raised, bodyRuns,
          flightTime, log, legacy, probe, device, deviceIp_, devicePort_, connected_,
          tracking_, shouldStop_, dataQueue_, settings_, dataThread_, threads,
          client, reply>>

\* the variables of the launch monitor
monitor == <<device, deviceIp_, devicePort_, connected_, tracking_, shouldStop_,
             dataQueue_, settings_, dataThread_, threads, client, reply>>

\* the variables of the trajectory calculation
flight == <<build, pending, args, pc, vx, vy, prevTimeStep, prevVelocity, x, y,
            prevY, result, timeStep, iterationCount, ret, raised, bodyRuns,
            flightTime, log, legacy>>

locals == <<vx, vy, prevTimeStep, prevVelocity, x, y, prevY, result, timeStep,
            iterationCount>>

Launch(speed, angle, spin, wind, wangle) ==
  [initialSpeed |-> speed, launchAngle |-> angle, spinRate |-> spin,
   windSpeed |-> wind, windAngle |-> wangle,
   spinAxis |-> [tilt |-> 0, direction |-> 0]]

\* arguments inside the validated ranges
ValidInputs ==
  { Launch(34710000, 45, 1000000, 0, 0),
    Launch(35000000, 45, 1000000, 0, 0),
    Launch(500000, 45, 1000000, 0, 0),
    Launch(10000000, 10, 1000000, 0, 0),
    Launch(1000000, 10, 2500000, 500000000, 180),
    Launch(0, 0, 0, 0, 0),
    Launch(1000000000, -90, 1000000, 0, 0),
    Launch(1000000000, 90, 1000000, 0, 0),
    Launch(100000000, 10, 0, 0, 0),
    Launch(0, 10, 1000000, 50000000, 0),
    Launch(1000000000, 0, 10000000, 500000000, 360) }

\* arguments with one parameter, or two, outside its range
InvalidInputs ==
  { Launch(-10000000, 0, 0, 0, 0),
    Launch(1500000000, 0, 0, 0, 0),
    Launch(100000000, 95, 1000000, 0, 0),
    Launch(100000000, -95, 1000000, 0, 0),
    Launch(100000000, 10, -100000, 0, 0),
    Launch(100000000, 10, 15000000, 0, 0),
    Launch(100000000, 10, 1000000, -50000000, 0),
    Launch(100000000, 10, 1000000, 600000000, 0),
    Launch(100000000, 10, 1000000, 50000000, 400),
    Launch(100000000, 10, 1000000, 50000000, -10),
    Launch(-10000000, 95, 1000000, 0, 0) }

Inputs == ValidInputs \cup InvalidInputs

\* arguments whose call returns after a few dozen iterations at most
ShortInputs ==
  { Launch(0, 0, 0, 0, 0),
    Launch(1000000000, -90, 1000000, 0, 0),
    Launch(100000000, 10, 0, 0, 0),
    Launch(1000000, 10, 2500000, 500000000, 0),
    Launch(-10000000, 0, 0, 0, 0) }

\* the longest sequence of calls a client makes
MaxCalls == 3

RECURSIVE SeqsUpTo(_, _)
SeqsUpTo(S, n) ==
  IF n = 0 THEN {<<>>}
  ELSE LET shorter == SeqsUpTo(S, n - 1)
       IN shorter \cup {Append(q, e) : q \in shorter, e \in S}

(***************************************************************************)
(* Launch monitors (trackman_monitor.cpp, gcquad_monitor.cpp): strings and *)
(* construction.  A std::string is the sequence of its characters.         *)
(***************************************************************************)
Metric == <<"M", "e", "t", "r", "i", "c">>

Imperial == <<"I", "m", "p", "e", "r", "i", "a", "l">>

Indoor == <<"I", "n", "d", "o", "o", "r">>

Outdoor == <<"O", "u", "t", "d", "o", "o", "r">>

true == <<"t", "r", "u", "e">>

false == <<"f", "a", "l", "s", "e">>

ProV1 == <<"P", "r", "o", "V", "1">>

ProV1x == <<"P", "r", "o", "V", "1", "x">>

TP5 == <<"T", "P", "5">>

TP5x == <<"T", "P", "5", "x">>

ChromeSoft == <<"C", "h", "r", "o", "m", "e", "S", "o", "f", "t">>

Generic == <<"G", "e", "n", "e", "r", "i", "c">>

validModels == <<ProV1, ProV1x, TP5, TP5x, ChromeSoft, Generic>>

DEFAULT_IP(dev) ==
  IF dev = "TrackMan"
  THEN <<"1", "9", "2", ".", "1", "6", "8", ".", "0", ".", "2", "0", "0">>
  ELSE <<"1", "9", "2", ".", "1", "6", "8", ".", "0", ".", "1", "0", "0">>

DEFAULT_PORT(dev) == IF dev = "TrackMan" THEN 8888 ELSE 2001

\* the settings the constructor stores
Settings(dev) ==
  IF dev = "TrackMan"
  THEN [units |-> Metric, clubData |-> TRUE, ballData |-> TRUE,
        captureRate |-> 40, environment |-> Indoor, normalizeData |-> TRUE]
  ELSE [units |-> Metric, clubData |-> TRUE, ballData |-> TRUE,
        environment |-> Indoor, quadruplex |-> TRUE, normalizeData |-> TRUE,
        ballModel |-> ProV1, captureRate |-> 10000, highSpeed |-> TRUE]

\* the most threads the model keeps track of at a time
MaxThreads == 2

\* a thread that was never started, or was joined
NoThread == [pc |-> "none", data |-> <<>>]

\* the calling thread is between two calls
Idle == [pc |-> "idle", op |-> "", stores |-> <<>>]

NoReply == [op |-> "", in |-> <<>>, out |-> <<>>]

\* a monitor of one of the classes, as its constructor leaves it
Constructed(devices) ==
  /\ device \in devices
  /\ deviceIp_ = DEFAULT_IP(device)
  /\ devicePort_ = DEFAULT_PORT(device)
  /\ connected_ = FALSE
  /\ tracking_ = FALSE
  /\ shouldStop_ = FALSE
  /\ dataQueue_ = <<>>
  /\ settings_ = Settings(device)
  /\ dataThread_ = 0
  /\ threads = [t \in 1..MaxThreads |-> NoThread]
  /\ client = Idle
  /\ reply = NoReply

\* no physics function has been called directly
NoProbe == [fn |-> "", in |-> <<>>, out |-> <<>>]

InitWith(scripts) ==
  /\ build \in {"int", "double"}
  /\ pending \in scripts
  /\ args = Launch(0, 0, 0, 0, 0)
  /\ pc = "idle"
  /\ vx = 0 /\ vy = 0
  /\ prevTimeStep = BASE_TIMESTEP
  /\ prevVelocity = <<0, 0>>
  /\ x = 0 /\ y = 0 /\ prevY = 0
  /\ result = [trajectory |-> <<>>, distance |-> 0, apex |-> 0]
  /\ timeStep = MIN_TIMESTEP
  /\ iterationCount = 0
  /\ ret = TrajectoryResultWithStatus("Success", <<>>, nullopt)
  /\ raised = ""
  /\ bodyRuns = 0
  /\ flightTime = 0
  /\ log = <<>>
  /\ legacy = <<>>

\* one call, with any of the inputs
Init ==
  InitWith({<<i>> : i \in Inputs}) /\ probe = NoProbe /\ Constructed({"TrackMan"})

\* up to MaxCalls calls, one after the other, with the short inputs
InitCalls ==
  /\ InitWith(SeqsUpTo(ShortInputs, MaxCalls) \ {<<>>})
  /\ probe = NoProbe
  /\ Constructed({"TrackMan"})

\* the call returns r
Return(r) ==
  /\ pc' = "done"
  /\ ret' = r
  /\ log' = Append(log, [args |-> args', ret |-> r])

\* a validation threw: the stack is unwound and the catch clause returns
Thrown(what, where) ==
  /\ raised' = where
  /\ Return(Catch("PhysicsValidationError", what))

\* line 41: prevTimeStep is a local, set on every call whatever value an
\* earlier call left in it
prevTimeStepStatic(left) == left
prevTimeStepAtEntry(left) == BASE_TIMESTEP

\* lines 14-55: validation of the arguments and initialisation of the locals
Call ==
  /\ pc \in {"idle", "done", "returned"}
  /\ pending # <<>>
  /\ args' = Head(pending)
  /\ pending' = Tail(pending)
  /\ bodyRuns' = 0
  /\ flightTime' = 0
  /\ legacy' = <<>>
  /\ UNCHANGED <<build, probe, monitor>>
  /\ LET a == Head(pending)
         what == validateLaunchParameters(a.initialSpeed, a.launchAngle,
                   a.spinRate, a.windSpeed, a.windAngle)
     IN IF what # NoThrow
        THEN Thrown(what, "launch") /\ UNCHANGED locals
        ELSE /\ vx' = Mul(a.initialSpeed, CosDeg(a.launchAngle))
             /\ vy' = Mul(a.initialSpeed, SinDeg(a.launchAngle))
             /\ prevTimeStep' = prevTimeStepAtEntry(prevTimeStep)
             /\ prevVelocity' = <<vx', vy'>>
             /\ x' = 0 /\ y' = 0 /\ prevY' = 0
             /\ result' = [trajectory |-> <<TrajectoryPoint(0, 0)>>,
                           distance |-> 0, apex |-> 0]
             /\ timeStep' = MIN_TIMESTEP
             /\ iterationCount' = 0
             /\ pc' = "loop"
             /\ raised' = ""
             /\ UNCHANGED <<ret, log>>

\* lines 62-65: the speed of the ball relative to the air at its height
relativeSpeed ==
  LET rel == calculateRelativeVelocity(vx, vy,
               getWindGradient(args.windSpeed, y), args.windAngle)
  IN Hypot(rel.relativeVelX, rel.relativeVelY)

\* lines 71-100: the raw time step, BASE_TIMESTEP times the five factors
rawTimeStepMax(relV) == MAX_TIMESTEP
rawTimeStep(relV) ==
  LET inv == Div(ONE, prevTimeStep)
      \* (currentVelocity - prevVelocity).scale(1.0 / prevTimeStep), Q4
      accelMagnitude == Hypot(Mul(vx - prevVelocity[1], inv),
                              Mul(vy - prevVelocity[2], inv))
      launchProgress == Min(ONE, (Len(result.trajectory) * ONE) \div 12)
      landingFactor ==
        IF vy < 0 THEN Max(0, Min(ONE, Pow(y \div 50, 800000))) ELSE ONE
      velocityFactor == Exp(-Mul(VELOCITY_SCALE, Pow(relV \div 10, 850000)))
      accelFactor == Exp(-Mul(ACCEL_SCALE, PowS(accelMagnitude, LN_1E4, 800000)))
      \* pow(spinRate, 0.9), Q3
      spinPow == IF args.spinRate = 0 THEN 0
                 ELSE ExpS(Mul(900000, LnInt(args.spinRate) - LN_1E3), 1000)
      spinFactor == Exp(-((SPIN_SCALE * spinPow) \div 1000))
      heightFactor ==
        Min(ONE, Pow(ONE - Exp(-Mul(HEIGHT_SCALE, y \div 10)), 850000))
      phaseFactor == 400000 + Mul(Mul(600000, launchProgress), landingFactor)
  IN Mul(Mul(Mul(Mul(Mul(BASE_TIMESTEP, velocityFactor), accelFactor),
                 spinFactor), heightFactor), phaseFactor)

\* line 107: the clamp to the limits
clampAbove(smoothed) == Min(MAX_TIMESTEP, smoothed)
clamp(smoothed) == Min(MAX_TIMESTEP, Max(MIN_TIMESTEP, smoothed))

\* lines 71-107: the time step of this iteration, in nanoseconds
AdaptiveTimeStep(relV) ==
  clamp(Mul(SMOOTH_FACTOR, prevTimeStep)
        + Mul(ONE - SMOOTH_FACTOR, rawTimeStep(relV)))

\* lines 113-150: drag and Magnus accelerations (Q6) for relV > 0.001, and
\* the what() of the first validation among them that throws
AeroAcceleration(rel, relV) ==
  LET reynoldsNumber == calculateReynoldsNumber(relV, y)
      dragCoef == calculateDragCoefficient(reynoldsNumber)
      density == getAirDensity(y)
      dragForce ==
        MulT(Mul(Mul(Mul(Mul(500000, density), dragCoef), BALL_AREA), relV),
             relV \div 10)
      elapsedTime == DivDouble(x, args.initialSpeed)
      magnusForce ==
        calculateMagnusForce(args.spinRate, relV, args.spinAxis, elapsedTime)
      ux == Div(rel.relativeVelX, relV)
      uy == Div(rel.relativeVelY, relV)
      dragAx == Div(-Mul(dragForce, ux), BALL_MASS)
      dragAy == Div(-Mul(dragForce, uy), BALL_MASS)
      magnusAx == Div(-Mul(magnusForce.v, uy), BALL_MASS)
      magnusAy == Div(Mul(magnusForce.v, ux), BALL_MASS)
      forces ==
        FirstThrow(<<
          validatePhysicalQuantity(Fin(reynoldsNumber), 0, 10^9,
                                   <<"Reynolds", "number">>),
          validatePhysicalQuantity(Fin(dragCoef), 0, ONE,
                                   <<"Drag", "coefficient">>),
          validatePhysicalQuantity(Fin(density), 500000, 1500000,
                                   <<"Air", "density">>),
          validatePhysicalQuantity(Fin(dragForce), 0, 100 * 10^7,
                                   <<"Drag", "force">>),
          validatePhysicalQuantity(magnusForce, -50 * 10^7, 50 * 10^7,
                                   <<"Magnus", "force">>) >>)
      accelerations ==
        FirstThrow(<<
          validatePhysicalQuantity(Fin(dragAx), -1000 * ONE, 1000 * ONE,
                                   <<"Drag", "acceleration", "X">>),
          validatePhysicalQuantity(Fin(dragAy), -1000 * ONE, 1000 * ONE,
                                   <<"Drag", "acceleration", "Y">>),
          validatePhysicalQuantity(Fin(magnusAx), -500 * ONE, 500 * ONE,
                                   <<"Magnus", "acceleration", "X">>),
          validatePhysicalQuantity(Fin(magnusAy), -500 * ONE, 500 * ONE,
                                   <<"Magnus", "acceleration", "Y">>) >>)
  IN IF forces # NoThrow THEN [what |-> forces, ax |-> 0, ay |-> 0]
     ELSE IF accelerations # NoThrow
     THEN [what |-> accelerations, ax |-> 0, ay |-> 0]
     ELSE [what |-> NoThrow, ax |-> dragAx + magnusAx, ay |-> dragAy + magnusAy]

\* lines 168-170: the unqualified abs.  Where it names ::abs(int) the
\* double argument is converted to int first, which drops the fraction;
\* where <cmath> also declares ::abs(double) it is the absolute value.
abs(d) == IF build = "int" THEN (Abs(d) \div 10^7) * 10^7 ELSE Abs(d)

\* lines 168-170: whether the new point is recorded, given the number of
\* points recorded so far and its offsets from the last of them
RecordedAlways(size, dx, dy) == TRUE
Recorded(size, dx, dy) ==
  size < 2 \/ abs(dx) > 1000000 \/ abs(dy) > 1000000

\* line 58, left operand of &&
StillFlying == y >= 0 \/ result.trajectory = <<>>

\* line 58, right operand of && (before the increment)
WithinCapAlways(count) == TRUE
WithinCap(count) == count < MAX_ITERATIONS

\* lines 58-178: one iteration of the loop
Step ==
  /\ pc = "loop"
  /\ StillFlying /\ WithinCap(iterationCount)
  /\ iterationCount' = iterationCount + 1
  /\ bodyRuns' = bodyRuns + 1
  /\ UNCHANGED <<build, pending, args, legacy, probe, monitor>>
  /\ \E effectiveWindSpeed \in {getWindGradient(args.windSpeed, y)} :
     \E rel \in {calculateRelativeVelocity(vx, vy, effectiveWindSpeed,
                                           args.windAngle)} :
     \E relV \in {Hypot(rel.relativeVelX, rel.relativeVelY)} :
     \E tooFast \in {validatePhysicalQuantity(Fin(relV), 0, 200 * 10^7,
                                              <<"Relative", "velocity">>)} :
       IF tooFast # NoThrow
       THEN Thrown(tooFast, "step")
            /\ UNCHANGED <<vx, vy, prevTimeStep, prevVelocity, x, y, prevY,
                           result, timeStep, flightTime>>
       ELSE
       \E dt \in {AdaptiveTimeStep(relV)} :
       \E a \in {IF relV > 10000 THEN AeroAcceleration(rel, relV)
                 ELSE [what |-> NoThrow, ax |-> 0, ay |-> 0]} :
       \E nvx \in {IF relV > 10000 THEN vx + MulT(a.ax, 10 * dt) ELSE vx} :
       \E nvy \in {IF relV > 10000 THEN vy + MulT(a.ay - GRAVITY, 10 * dt)
                   ELSE vy - MulT(GRAVITY, 10 * dt)} :
       \E nx \in {x + MulT(nvx, dt)} :
       \E ny \in {y + MulT(nvy, dt)} :
       \E what \in {IF a.what # NoThrow THEN a.what
                    ELSE validateTrajectoryPoint(TrajectoryPoint(nx, ny), 1000)} :
         IF what # NoThrow
         THEN Thrown(what, "step")
              /\ UNCHANGED <<vx, vy, prevTimeStep, prevVelocity, x, y, prevY,
                             result, timeStep, flightTime>>
         ELSE
           /\ prevY' = y
           /\ timeStep' = dt
           /\ flightTime' = flightTime + dt
           /\ prevTimeStep' = dt
           /\ prevVelocity' = <<vx, vy>>
           /\ vx' = nvx /\ vy' = nvy
           /\ x' = nx /\ y' = ny
           /\ result' =
                [result EXCEPT
                   !.trajectory =
                     IF Recorded(Len(@), nx - @[Len(@)].x, ny - @[Len(@)].y)
                     THEN Append(@, TrajectoryPoint(nx, ny)) ELSE @,
                   !.apex = IF ny > @ THEN ny ELSE @]
           /\ UNCHANGED <<pc, ret, raised, log>>

\* line 181
FailedToConvergeNever(count) == FALSE
FailedToConverge(count) == count >= MAX_ITERATIONS

\* lines 58 and 180-198: the loop condition is false; the increment of
\* iterationCount is evaluated only when the left operand of && is true
Finish ==
  /\ pc = "loop"
  /\ ~(StillFlying /\ WithinCap(iterationCount))
  /\ iterationCount' = IF StillFlying THEN iterationCount + 1 ELSE iterationCount
  /\ raised' = ""
  /\ UNCHANGED <<build, pending, args, vx, vy, prevTimeStep, prevVelocity, y,
                 prevY, timeStep, bodyRuns, flightTime, legacy, probe, monitor>>
  /\ IF FailedToConverge(iterationCount')
     THEN /\ Return(TrajectoryResultWithStatus("ConvergenceFailure",
                      <<"Trajectory", "calculation", "failed", "to", "converge",
                        "within", "maximum", "iterations">>, DefaultRes))
          /\ UNCHANGED <<x, result>>
     ELSE /\ IF result.trajectory # <<>> /\ y < 0 /\ prevY > 0
             THEN LET t == Div(-prevY, y - prevY)
                      back == result.trajectory[Len(result.trajectory)]
                  IN /\ x' = back.x - MulT(Mul(t, vx), timeStep)
                     /\ result' =
                          [result EXCEPT
                             !.trajectory[Len(result.trajectory)] =
                               TrajectoryPoint(x', 0),
                             !.distance = x']
             ELSE /\ x' = x
                  /\ result' =
                       [result EXCEPT
                          !.distance =
                            result.trajectory[Len(result.trajectory)].x]
          /\ Return(TrajectoryResultWithStatus("Success", <<>>, <<result'>>))

\* TrajectoryResult(): the default-constructed result
TrajectoryResultStale == [trajectory |-> <<TrajectoryPoint(0, 0)>>, distance |-> 0, apex |-> 0]
TrajectoryResult == [trajectory |-> <<>>, distance |-> 0, apex |-> 0]

isSuccess(r) == r.status = "Success"

\* lines 214-227: the legacy wrapper.  It passes its arguments on unchanged,
\* so the only step of its own comes after the validated calculation has
\* returned; a call that was made through the wrapper takes it.
calculateTrajectory ==
  /\ pc = "done"
  /\ pc' = "returned"
  /\ legacy' = IF isSuccess(ret) THEN <<ret.result[1]>> ELSE <<TrajectoryResult>>
  /\ UNCHANGED <<build, pending, args, locals, ret, raised, bodyRuns, flightTime,
                 log, probe, monitor>>

Next == Call \/ Step \/ Finish \/ calculateTrajectory

Spec == Init /\ [][Next]_vars

SpecCalls == InitCalls /\ [][Next]_vars

\* a step taken by a call that is in its loop
LoopStep == pc = "loop" /\ (pc' = "done" \/ bodyRuns' = bodyRuns + 1)

\* The thread that made the call keeps running: a call that is in its loop
\* takes its next step.  This is WF_vars(LoopStep) written out, with
\* ENABLED <<LoopStep>>_vars replaced by its value, pc = "loop".
FairSpec == Spec /\ ([]<>(pc # "loop") \/ []<><<LoopStep>>_vars)

(***************************************************************************)
(* Direct calls of the physics functions (physics.cpp, atmosphere.cpp), as  *)
(* the unit tests make them.  probe.in holds the arguments and probe.out,  *)
(* once the call has returned, the values.                                 *)
(***************************************************************************)
\* Reynolds numbers, Q3: below, at and above both regime boundaries
ReynoldsValues ==
  {0, 10000000, 39999999, CRITICAL_REYNOLDS, 40000001, 100000000, 220000000,
   300000000, 399999999, TURBULENT_REYNOLDS, 400000001, 500000000, 1000000000}

\* initial spins, Q3: 0, 100, 2500 and 10000 rpm
SpinValues == {0, 100000, 2500000, 10000000}

\* times, Q6: 0 s to 10 s
TimeValues == {0, 500, 1000, 500000, 1000000, 1001000, 2000000, 4000000, 10000000}

\* altitudes at which the layer transition is probed, in metres
BoundaryAltitudes == {11000, 20000, 32000, 47000}

TransitionAltitudes == BoundaryAltitudes \cup {1000, 5000, 15000, 25000, 40000, 50000}

\* ground-level wind speeds, Q7: 0, 5 and 50 m/s
WindValues == {0, 50000000, 500000000}

\* heights, Q7: 0 m to 100 m
HeightValues ==
  {0, 500000, 999999, 1000000, 10000000, 50000000, 100000000, 300000000,
   1000000000}

\* altitudes, Q4: below sea level, at and next to every layer boundary, and
\* above the last one
AltitudeValues ==
  {-10000000, -1, 0, 1, 50000000, 109999999, 110000000, 110000001, 150000000,
   199999999, 200000000, 200000001, 319999999, 320000000, 320000001,
   469999999, 470000000, 470000001, 1000000000, 2000000000}

Probe(fn, in) == [fn |-> fn, in |-> in, out |-> <<>>]

Probes ==
  {Probe("calculateDragCoefficient", <<r1, r2>>) :
     r1 \in ReynoldsValues, r2 \in ReynoldsValues}
  \cup {Probe("calculateSpinDecay", <<sp, t1, t2>>) :
          sp \in SpinValues, t1 \in TimeValues, t2 \in TimeValues}
  \cup {Probe("LayerTransitions", <<h>>) : h \in TransitionAltitudes}
  \cup {Probe("getLayer", <<h>>) : h \in AltitudeValues}
  \cup {Probe("getWindGradient", <<w, h1, h2>>) :
          w \in WindValues, h1 \in HeightValues, h2 \in HeightValues}

\* no trajectory call is made; one physics function is about to be called
InitPhysics ==
  InitWith({<<>>}) /\ probe \in Probes /\ Constructed({"TrackMan"})

Returns(values) ==
  /\ probe.out = <<>>
  /\ probe' = [probe EXCEPT !.out = values]
  /\ UNCHANGED <<flight, monitor>>

\* calculateDragCoefficient at two Reynolds numbers
DragCoefficient ==
  /\ probe.fn = "calculateDragCoefficient"
  /\ Returns(<<calculateDragCoefficient(probe.in[1]),
               calculateDragCoefficient(probe.in[2])>>)

\* calculateSpinDecay of one initial spin at two times
SpinDecay ==
  /\ probe.fn = "calculateSpinDecay"
  /\ Returns(<<calculateSpinDecay(probe.in[1], Fin(probe.in[2])),
               calculateSpinDecay(probe.in[1], Fin(probe.in[3]))>>)

\* getTemperature and getPressure 1 m below and 1 m above an altitude
LayerTransitions ==
  /\ probe.fn = "LayerTransitions"
  /\ LET altitude == probe.in[1]
     IN Returns([tempBelow |-> getTemperature((altitude - 1) * 10^4),
                 tempAbove |-> getTemperature((altitude + 1) * 10^4),
                 pressBelow |-> getPressure((altitude - 1) * 10^4),
                 pressAbove |-> getPressure((altitude + 1) * 10^4)])

\* getWindGradient of one ground-level wind at two heights
WindGradient ==
  /\ probe.fn = "getWindGradient"
  /\ Returns(<<getWindGradient(probe.in[1], probe.in[2]),
               getWindGradient(probe.in[1], probe.in[3])>>)

\* getLayer of an altitude: the index found and the layer returned
GetLayer ==
  /\ probe.fn = "getLayer"
  /\ Returns([index |-> findLayerIndex(probe.in[1]),
              layer |-> getLayer(probe.in[1])])

NextPhysics ==
  DragCoefficient \/ SpinDecay \/ LayerTransitions \/ WindGradient \/ GetLayer

SpecPhysics == InitPhysics /\ [][NextPhysics]_vars

(***************************************************************************)
(* Launch monitors (trackman_monitor.cpp, gcquad_monitor.cpp).  One thread *)
(* calls the monitor; startTracking starts the data-collection thread.     *)
(* Measurements are in thousandths (Q3), factors in Q6.                    *)
(***************************************************************************)
Digits == <<"0", "1", "2", "3", "4", "5", "6", "7", "8", "9">>

isdigit(c) == \E d \in 1..10 : Digits[d] = c

DigitOf(c) == (CHOOSE d \in 1..10 : Digits[d] = c) - 1

isspace(c) == c \in {" ", "\t", "\n"}

INT_MAX == 2147483647

RECURSIVE SkipSpace(_, _)
SkipSpace(str, i) ==
  IF i <= Len(str) /\ isspace(str[i]) THEN SkipSpace(str, i + 1) ELSE i

\* the digits from position i on, accumulated with the sign; a value that
\* does not fit an int throws
RECURSIVE stoiFrom(_, _, _, _)
stoiFrom(str, i, sign, acc) ==
  IF i > Len(str) \/ ~isdigit(str[i])
  THEN [threw |-> "", value |-> acc]
  ELSE LET d == DigitOf(str[i])
           fits == IF sign < 0
                   THEN IF d = 0 THEN acc >= -(INT_MAX \div 10)
                        ELSE acc >= -((INT_MAX - (d - 1)) \div 10)
                   ELSE acc <= (INT_MAX - d) \div 10
       IN IF fits THEN stoiFrom(str, i + 1, sign, acc * 10 + sign * d)
          ELSE [threw |-> "out_of_range", value |-> 0]

\* std::stoi: leading white space, an optional sign, then digits up to the
\* first other character; no digit at all throws
stoi(str) ==
  LET i == SkipSpace(str, 1)
      signed == i <= Len(str) /\ str[i] \in {"+", "-"}
      sign == IF signed /\ str[i] = "-" THEN -1 ELSE 1
      j == IF signed THEN i + 1 ELSE i
  IN IF j > Len(str) \/ ~isdigit(str[j])
     THEN [threw |-> "invalid_argument", value |-> 0]
     ELSE stoiFrom(str, j, sign, 0)

RECURSIVE DigitsOfNegative(_)
DigitsOfNegative(n) ==
  IF n = 0 THEN <<>>
  ELSE LET d == (10 - (n % 10)) % 10
       IN DigitsOfNegative((n + d) \div 10) \o <<Digits[d + 1]>>

\* std::to_string(int)
to_string(n) ==
  IF n = 0 THEN <<"0">>
  ELSE IF n < 0 THEN <<"-">> \o DigitsOfNegative(n)
  ELSE DigitsOfNegative(-n)

\* launch_monitor.h:77-81, the fields the monitors set or check
LaunchMonitorData ==
  [ballSpeed |-> 0, launchAngle |-> 0, spinRate |-> 0, smashFactor |-> 0,
   carryDistance |-> 0, clubSpeed |-> 0, confidence |-> 0]

parseTrackManData(data) ==
  [data EXCEPT !.ballSpeed = 70000, !.launchAngle = 12000,
               !.spinRate = 2800000, !.clubSpeed = 48000,
               !.smashFactor = 1460]

parseGCQuadData(data) ==
  [data EXCEPT !.ballSpeed = 70000, !.launchAngle = 12000,
               !.spinRate = 2800000, !.clubSpeed = 48000,
               !.smashFactor = 1460, !.confidence = 980]

validateBallData(data) ==
  /\ data.ballSpeed > 0 /\ data.ballSpeed < 100000
  /\ data.launchAngle >= -10000 /\ data.launchAngle <= 60000
  /\ data.spinRate >= 0 /\ data.spinRate <= 12000000

validateClubData(data) ==
  /\ data.clubSpeed > 0 /\ data.clubSpeed < 67000
  /\ data.smashFactor >= 1000 /\ data.smashFactor <= 1500

validateTrackManData(data) ==
  /\ validateBallData(data) /\ validateClubData(data)
  /\ ~(data.smashFactor < 1000 \/ data.smashFactor > 1500)

validateGCQuadData(data) ==
  /\ validateBallData(data) /\ validateClubData(data)
  /\ ~(data.confidence < 800)

\* indoor is what settings_.environment == "Indoor" evaluated to
applyNormalization(dev, data, indoor) ==
  IF indoor
  THEN IF dev = "TrackMan"
       THEN [data EXCEPT !.ballSpeed = Mul(@, 980000),
                         !.spinRate = Mul(@, 1020000)]
       ELSE [data EXCEPT !.ballSpeed = Mul(@, 995000),
                         !.spinRate = Mul(@, 1010000)]
  ELSE [data EXCEPT !.ballSpeed = Mul(@, Mul(ONE, ONE)),
                    !.carryDistance = Mul(@, Mul(ONE, ONE))]

adjustForEnvironment(data, indoor) ==
  IF indoor THEN [data EXCEPT !.confidence = Mul(@, 950000)]
  ELSE [data EXCEPT !.confidence = Mul(@, 900000)]

calculateBallCompression(ballSpeed, ballModel) ==
  LET baseCompression ==
        IF ballModel = ProV1 \/ ballModel = ProV1x THEN 1020000
        ELSE IF ballModel = Generic THEN 980000
        ELSE ONE
      speedFactor == Min(ONE + (ballSpeed - 65000), 1050000)
  IN Mul(baseCompression, speedFactor)

adjustForBallModel(data, ballModel) ==
  LET compressionFactor == calculateBallCompression(data.ballSpeed, ballModel)
      spun == IF ballModel = ProV1 THEN [data EXCEPT !.spinRate = Mul(@, 1020000)]
              ELSE IF ballModel = ProV1x
              THEN [data EXCEPT !.spinRate = Mul(@, 980000)]
              ELSE data
  IN [spun EXCEPT !.carryDistance = Mul(@, compressionFactor)]

\* value == "true"
IsTrue(value) == value = true

\* configure: the value it returns and the stores it makes, in order
Returning(value, stores) == [ret |-> value, stores |-> stores]

configureTrackMan(setting, value) ==
  IF setting = "units"
  THEN IF value # Metric /\ value # Imperial THEN Returning(FALSE, <<>>)
       ELSE Returning(TRUE, <<<<"units", value>>>>)
  ELSE IF setting = "environment"
  THEN IF value # Indoor /\ value # Outdoor THEN Returning(FALSE, <<>>)
       ELSE Returning(TRUE, <<<<"environment", value>>>>)
  ELSE IF setting = "normalize"
  THEN Returning(TRUE, <<<<"normalizeData", IsTrue(value)>>>>)
  ELSE IF setting = "ip"
  THEN Returning(TRUE, <<<<"deviceIp_", value>>>>)
  ELSE IF setting = "port"
  THEN IF stoi(value).threw # "" THEN Returning(FALSE, <<>>)
       ELSE Returning(TRUE, <<<<"devicePort_", stoi(value).value>>>>)
  ELSE Returning(FALSE, <<>>)

configureGCQuad(setting, value) ==
  IF setting = "units"
  THEN IF value # Metric /\ value # Imperial THEN Returning(FALSE, <<>>)
       ELSE Returning(TRUE, <<<<"units", value>>>>)
  ELSE IF setting = "environment"
  THEN IF value # Indoor /\ value # Outdoor THEN Returning(FALSE, <<>>)
       ELSE Returning(TRUE, <<<<"environment", value>>>>)
  ELSE IF setting = "quadruplex"
  THEN Returning(TRUE, <<<<"quadruplex", IsTrue(value)>>>>)
  ELSE IF setting = "normalize"
  THEN Returning(TRUE, <<<<"normalizeData", IsTrue(value)>>>>)
  ELSE IF setting = "ballModel"
  THEN IF \A m \in 1..Len(validModels) : validModels[m] # value
       THEN Returning(FALSE, <<>>)
       ELSE Returning(TRUE, <<<<"ballModel", value>>>>)
  ELSE IF setting = "highSpeed"
  THEN Returning(TRUE, <<<<"highSpeed", IsTrue(value)>>,
                         <<"captureRate", IF IsTrue(value) THEN 10000 ELSE 5000>>>>)
  ELSE IF setting = "ip"
  THEN Returning(TRUE, <<<<"deviceIp_", value>>>>)
  ELSE IF setting = "port"
  THEN IF stoi(value).threw # "" THEN Returning(FALSE, <<>>)
       ELSE Returning(TRUE, <<<<"devicePort_", stoi(value).value>>>>)
  ELSE Returning(FALSE, <<>>)

BoolString(b) == IF b THEN true ELSE false

\* getSetting of a monitor of class dev with settings st, address ip, port
getSettingOf(dev, st, ip, port, setting) ==
  IF setting = "units" THEN st.units
  ELSE IF setting = "environment" THEN st.environment
  ELSE IF dev = "GCQuad" /\ setting = "quadruplex" THEN BoolString(st.quadruplex)
  ELSE IF setting = "normalize" THEN BoolString(st.normalizeData)
  ELSE IF dev = "GCQuad" /\ setting = "ballModel" THEN st.ballModel
  ELSE IF dev = "GCQuad" /\ setting = "highSpeed" THEN BoolString(st.highSpeed)
  ELSE IF setting = "ip" THEN ip
  ELSE IF setting = "port" THEN to_string(port)
  ELSE <<>>

getSetting(setting) ==
  getSettingOf(device, settings_, deviceIp_, devicePort_, setting)

isConnected == connected_

isTracking == tracking_

\* the setting names the calls are made with
SettingNames ==
  {"units", "environment", "quadruplex", "normalize", "ballModel", "highSpeed",
   "ip", "port", "invalid"}

\* the configure calls made: accepted, rejected, and accepted values that are
\* not the text getSetting gives back
ConfigureInputs ==
  {<<"units", Imperial>>, <<"units", <<"I", "n", "v", "a", "l", "i", "d">>>>,
   <<"environment", Outdoor>>, <<"normalize", false>>,
   <<"normalize", <<"y", "e", "s">>>>, <<"port", <<"0", "0", "8", "0">>>>,
   <<"port", <<"a", "b", "c">>>>, <<"invalid", <<"v", "a", "l", "u", "e">>>>,
   <<"ballModel", Generic>>, <<"highSpeed", false>>}

\* the most shots the queue holds before the collection thread waits
MaxQueue == 2

Replied(op, in, out) == reply' = [op |-> op, in |-> in, out |-> out]

\* the members a monitor call leaves alone
SettingsUnchanged == UNCHANGED <<settings_, deviceIp_, devicePort_>>

\* lines 33-47
connect ==
  /\ client.pc = "idle"
  /\ connected_' = TRUE
  /\ Replied("connect", <<>>, <<TRUE>>)
  /\ UNCHANGED <<flight, probe, device, tracking_, shouldStop_, dataQueue_,
                 dataThread_, threads, client>>
  /\ SettingsUnchanged

\* the handle is joinable and its thread still runs: join() waits
Joining(t) == t # 0 /\ threads[t].pc # "done"

\* lines 106-113 of stopTracking up to join(), called by op
StopRequested(op) ==
  /\ shouldStop_' = TRUE
  /\ client' = [pc |-> "join", op |-> op, stores |-> <<>>]
  /\ UNCHANGED <<connected_, tracking_, dataThread_, threads, reply>>

\* disconnect that only clears the connected flag
disconnectOnly ==
  /\ client.pc = "idle"
  /\ connected_' = FALSE
  /\ Replied("disconnect", <<>>, <<TRUE>>)
  /\ UNCHANGED <<flight, probe, device, dataQueue_, tracking_, shouldStop_,
                 dataThread_, threads, client>>
  /\ SettingsUnchanged
\* lines 49-63: disconnect; it calls stopTracking first
disconnect ==
  /\ client.pc = "idle"
  /\ UNCHANGED <<flight, probe, device, dataQueue_>>
  /\ SettingsUnchanged
  /\ IF ~connected_
     THEN /\ Replied("disconnect", <<>>, <<TRUE>>)
          /\ UNCHANGED <<connected_, tracking_, shouldStop_, dataThread_,
                         threads, client>>
     ELSE IF tracking_
     THEN StopRequested("disconnect")
     ELSE /\ connected_' = FALSE
          /\ Replied("disconnect", <<>>, <<TRUE>>)
          /\ UNCHANGED <<tracking_, shouldStop_, dataThread_, threads, client>>

\* lines 84-93
getLastShot ==
  /\ client.pc = "idle"
  /\ IF dataQueue_ = <<>>
     THEN Replied("getLastShot", <<>>, <<>>) /\ UNCHANGED dataQueue_
     ELSE /\ Replied("getLastShot", <<>>, <<Head(dataQueue_)>>)
          /\ dataQueue_' = Tail(dataQueue_)
  /\ UNCHANGED <<flight, probe, device, connected_, tracking_, shouldStop_,
                 dataThread_, threads, client>>
  /\ SettingsUnchanged

\* a thread slot that is free
FreeSlots == {t \in 1..MaxThreads : threads[t].pc = "none"}

\* startTracking that does not look at tracking_
startTrackingAgain ==
  /\ client.pc = "idle"
  /\ UNCHANGED <<flight, probe, device, connected_, dataQueue_, client>>
  /\ SettingsUnchanged
  /\ IF ~connected_ \/ FreeSlots = {}
     THEN /\ Replied("startTracking", <<>>, <<FALSE>>)
          /\ UNCHANGED <<tracking_, shouldStop_, dataThread_, threads>>
     ELSE /\ tracking_' = TRUE
          /\ shouldStop_' = FALSE
          /\ LET t == CHOOSE u \in FreeSlots : \A w \in FreeSlots : u <= w
             IN /\ dataThread_' = t
                /\ threads' = [threads EXCEPT ![t] = [pc |-> "while", data |-> <<>>]]
          /\ Replied("startTracking", <<>>, <<TRUE>>)
\* TrackMan lines 95-104, GCQuad lines 103-118 (checkCalibration is true)
startTracking ==
  /\ client.pc = "idle"
  /\ UNCHANGED <<flight, probe, device, connected_, dataQueue_, client>>
  /\ SettingsUnchanged
  /\ IF ~connected_ \/ tracking_
     THEN /\ Replied("startTracking", <<>>, <<FALSE>>)
          /\ UNCHANGED <<tracking_, shouldStop_, dataThread_, threads>>
     ELSE /\ FreeSlots # {}
          /\ tracking_' = TRUE
          /\ shouldStop_' = FALSE
          /\ LET t == CHOOSE u \in FreeSlots : \A w \in FreeSlots : u <= w
             IN /\ dataThread_' = t
                /\ threads' = [threads EXCEPT ![t] = [pc |-> "while", data |-> <<>>]]
          /\ Replied("startTracking", <<>>, <<TRUE>>)

\* stopTracking that does not join the thread
stopTrackingDetached ==
  /\ client.pc = "idle"
  /\ UNCHANGED <<flight, probe, device, connected_, dataQueue_, client,
                 dataThread_, threads>>
  /\ SettingsUnchanged
  /\ shouldStop_' = (tracking_ \/ shouldStop_)
  /\ tracking_' = FALSE
  /\ Replied("stopTracking", <<>>, <<TRUE>>)
\* lines 106-113: stopTracking up to join()
stopTracking ==
  /\ client.pc = "idle"
  /\ UNCHANGED <<flight, probe, device, dataQueue_>>
  /\ SettingsUnchanged
  /\ IF ~tracking_
     THEN /\ Replied("stopTracking", <<>>, <<TRUE>>)
          /\ UNCHANGED <<connected_, tracking_, shouldStop_, dataThread_,
                         threads, client>>
     ELSE StopRequested("stopTracking")

\* lines 112-116: join() returns once the thread has; stopTracking returns,
\* and disconnect, when it was the caller, clears connected_ (line 57)
join ==
  /\ client.pc = "join"
  /\ ~Joining(dataThread_)
  /\ threads' = [t \in 1..MaxThreads |->
                   IF t = dataThread_ THEN NoThread ELSE threads[t]]
  /\ dataThread_' = 0
  /\ tracking_' = FALSE
  /\ connected_' = IF client.op = "disconnect" THEN FALSE ELSE connected_
  /\ client' = Idle
  /\ Replied(client.op, <<>>, <<TRUE>>)
  /\ UNCHANGED <<flight, probe, device, shouldStop_, dataQueue_>>
  /\ SettingsUnchanged

\* configure up to its stores: a rejected value returns false at once
configure ==
  /\ client.pc = "idle"
  /\ \E in \in ConfigureInputs :
       LET c == IF device = "TrackMan" THEN configureTrackMan(in[1], in[2])
                ELSE configureGCQuad(in[1], in[2])
       IN IF c.ret
          THEN /\ client' = [pc |-> "write", op |-> "configure",
                             stores |-> c.stores]
               /\ reply' = [op |-> "configure", in |-> in, out |-> <<>>]
          ELSE /\ Replied("configure", in, <<FALSE>>)
               /\ UNCHANGED client
  /\ UNCHANGED <<flight, probe, device, connected_, tracking_, shouldStop_,
                 dataQueue_, dataThread_, threads>>
  /\ SettingsUnchanged

\* the members after the stores st, made in order
RECURSIVE Stored(_, _)
Stored(members, st) ==
  IF st = <<>> THEN members
  ELSE LET field == Head(st)[1]
           value == Head(st)[2]
       IN Stored(IF field = "deviceIp_" THEN [members EXCEPT !.ip = value]
                 ELSE IF field = "devicePort_" THEN [members EXCEPT !.port = value]
                 ELSE [members EXCEPT !.settings[field] = value],
                 Tail(st))

\* the stores of configure are done and it returns true
configureReturn ==
  /\ client.pc = "write"
  /\ LET m == Stored([settings |-> settings_, ip |-> deviceIp_,
                      port |-> devicePort_], client.stores)
     IN /\ settings_' = m.settings
        /\ deviceIp_' = m.ip
        /\ devicePort_' = m.port
  /\ client' = Idle
  /\ reply' = [reply EXCEPT !.out = <<TRUE>>]
  /\ UNCHANGED <<flight, probe, device, connected_, tracking_, shouldStop_,
                 dataQueue_, dataThread_, threads>>

\* configure is in the middle of storing to the field
Writing(field) ==
  /\ client.pc = "write"
  /\ \E i \in 1..Len(client.stores) : client.stores[i][1] = field

\* what a store in progress will leave in the field
Written(field) ==
  {client.stores[i][2] : i \in {j \in 1..Len(client.stores) :
                                   client.stores[j][1] = field}}

\* the values an unsynchronised read of the field can give: the one stored,
\* or, while configure is writing it, the old or the new one
Read(field) ==
  IF Writing(field) THEN {settings_[field]} \cup Written(field)
  ELSE {settings_[field]}

\* the setting a data-collection thread reads at each position
ReadAt(pos) ==
  CASE pos = "normalize" -> "normalizeData"
    [] pos = "applyNormalization" -> "environment"
    [] pos = "adjust" -> IF device = "TrackMan" THEN "environment" ELSE "ballModel"
    [] pos = "sleep" -> "captureRate"
    [] OTHER -> ""

At(t, pos) == threads[t].pc = pos

Goto(t, pos, data) ==
  /\ threads' = [threads EXCEPT ![t] = [pc |-> pos, data |-> data]]
  /\ UNCHANGED <<flight, probe, device, connected_, tracking_, shouldStop_,
                 dataThread_, client, reply>>
  /\ SettingsUnchanged

\* line 160 and the parse and validation of lines 164-167
threadLoop ==
  \E t \in 1..MaxThreads :
    /\ At(t, "while")
    /\ UNCHANGED dataQueue_
    /\ IF shouldStop_ THEN Goto(t, "done", <<>>)
       ELSE /\ Len(dataQueue_) < MaxQueue
            /\ LET data == IF device = "TrackMan"
                           THEN parseTrackManData(LaunchMonitorData)
                           ELSE parseGCQuadData(LaunchMonitorData)
                   valid == IF device = "TrackMan" THEN validateTrackManData(data)
                            ELSE validateGCQuadData(data)
               IN IF valid THEN Goto(t, "normalize", data)
                  ELSE Goto(t, "sleep", <<>>)

\* line 168: if (settings_.normalizeData)
threadNormalize ==
  \E t \in 1..MaxThreads :
    /\ At(t, "normalize")
    /\ UNCHANGED dataQueue_
    /\ \E normalizeData \in Read("normalizeData") :
         IF normalizeData THEN Goto(t, "applyNormalization", threads[t].data)
         ELSE Goto(t, "adjust", threads[t].data)

\* line 169: applyNormalization(data)
threadApplyNormalization ==
  \E t \in 1..MaxThreads :
    /\ At(t, "applyNormalization")
    /\ UNCHANGED dataQueue_
    /\ \E environment \in Read("environment") :
         Goto(t, "adjust",
              applyNormalization(device, threads[t].data, environment = Indoor))

\* line 171: adjustForEnvironment(data), or adjustForBallModel(data)
threadAdjust ==
  \E t \in 1..MaxThreads :
    /\ At(t, "adjust")
    /\ UNCHANGED dataQueue_
    /\ IF device = "TrackMan"
       THEN \E environment \in Read("environment") :
              Goto(t, "push",
                   adjustForEnvironment(threads[t].data, environment = Indoor))
       ELSE \E ballModel \in Read("ballModel") :
              Goto(t, "push", adjustForBallModel(threads[t].data, ballModel))

\* lines 173-174: the shot is queued under the lock
threadPush ==
  \E t \in 1..MaxThreads :
    /\ At(t, "push")
    /\ dataQueue_' = Append(dataQueue_, threads[t].data)
    /\ Goto(t, "sleep", <<>>)

\* line 182: sleep_for(1000 / settings_.captureRate)
threadSleep ==
  \E t \in 1..MaxThreads :
    /\ At(t, "sleep")
    /\ UNCHANGED dataQueue_
    /\ \E captureRate \in Read("captureRate") :
         captureRate # 0 /\ Goto(t, "while", <<>>)

NextMonitor ==
  \/ connect \/ disconnect \/ getLastShot \/ startTracking \/ stopTracking
  \/ join \/ configure \/ configureReturn
  \/ threadLoop \/ threadNormalize \/ threadApplyNormalization
  \/ threadAdjust \/ threadPush \/ threadSleep

\* a monitor of either class, just constructed
InitMonitor ==
  /\ InitWith({<<>>}) /\ build = "int"
  /\ probe = NoProbe
  /\ Constructed({"TrackMan", "GCQuad"})

SpecMonitor == InitMonitor /\ [][NextMonitor]_vars

(***************************************************************************)
(* Properties of calculateTrajectoryWithValidation                         *)
(***************************************************************************)
Has(msg, word) == \E i \in DOMAIN msg : msg[i] = word

\* the range constraints a violates: the words that name the parameter and
\* the word that names the kind of violation
Violations(a) ==
  {v \in {<<"Initial", "speed", "negative">>, <<"Initial", "speed", "maximum">>,
          <<"Launch", "angle", "between">>, <<"Spin", "rate", "negative">>,
          <<"Spin", "rate", "maximum">>, <<"Wind", "speed", "negative">>,
          <<"Wind", "speed", "maximum">>, <<"Wind", "angle", "between">>} :
     \/ v = <<"Initial", "speed", "negative">> /\ a.initialSpeed < 0
     \/ v = <<"Initial", "speed", "maximum">> /\ a.initialSpeed > 100 * 10^7
     \/ v = <<"Launch", "angle", "between">>
          /\ (a.launchAngle < -90 \/ a.launchAngle > 90)
     \/ v = <<"Spin", "rate", "negative">> /\ a.spinRate < 0
     \/ v = <<"Spin", "rate", "maximum">> /\ a.spinRate > 10000 * 10^3
     \/ v = <<"Wind", "speed", "negative">> /\ a.windSpeed < 0
     \/ v = <<"Wind", "speed", "maximum">> /\ a.windSpeed > 50 * 10^7
     \/ v = <<"Wind", "angle", "between">>
          /\ (a.windAngle < 0 \/ a.windAngle > 360)}

OutOfRange(a) == Violations(a) # {}

\* C1: a returned value with status Success has a result and an empty
\* message; a returned value with any other status has no result.
C1_StatusMatchesResult ==
  pc = "done" =>
    /\ ret.status = "Success" => ret.result # nullopt /\ ret.errorMessage = <<>>
    /\ ret.status # "Success" => ret.result = nullopt

\* a call fails after it has recorded several trajectory points
C1_Witness ==
  /\ pc = "done"
  /\ ret.status = "ConvergenceFailure"
  /\ Len(result.trajectory) >= 2
  /\ ret.result = nullopt

\* C2: a call with a launch parameter outside its range returns InvalidInput
\* with no result and a message that names a violated constraint: the
\* parameter, and "negative", "maximum" or "between".
C2_OutOfRangeRejected ==
  pc = "done" /\ OutOfRange(args) =>
    /\ ret.status = "InvalidInput"
    /\ ret.result = nullopt
    /\ \E v \in Violations(args) : \A i \in 1..3 : Has(ret.errorMessage, v[i])

\* a call with a launch angle above 90 degrees has returned
C2_Witness ==
  /\ pc = "done"
  /\ args.launchAngle > 90
  /\ Violations(args) = {<<"Launch", "angle", "between">>}
  /\ Has(ret.errorMessage, "between")

\* C3: a call whose arguments pass the launch validation and in which a
\* per-step validation fails returns CalculationError, not InvalidInput.
C3_StepFailureIsCalculationError ==
  pc = "done" /\ raised = "step" =>
    ret.status = "CalculationError"

\* C4: a call with every parameter inside its range returns Success with a
\* non-empty trajectory that starts within 1 mm of (0,0) and ends with
\* |y| <= 0.1 m.
C4_ValidInputSucceeds ==
  pc = "done" /\ ~OutOfRange(args) =>
    /\ ret.status = "Success"
    /\ ret.result # nullopt
    /\ LET tr == ret.result[1].trajectory
       IN /\ tr # <<>>
          /\ Abs(tr[1].x) <= 10000 /\ Abs(tr[1].y) <= 10000
          /\ Abs(tr[Len(tr)].y) <= 1000000

\* C5: in a Success result x increases strictly from each trajectory point
\* to the next.
C5_XStrictlyIncreasing ==
  pc = "done" /\ ret.status = "Success" =>
    LET tr == ret.result[1].trajectory
    IN \A i \in 2..Len(tr) : tr[i].x > tr[i - 1].x

\* C6: in a Success result every trajectory point has y >= -0.001 m.
C6_YNotBelowGround ==
  pc = "done" /\ ret.status = "Success" =>
    LET tr == ret.result[1].trajectory
    IN \A i \in 1..Len(tr) : tr[i].y >= -10000

\* C7: a call whose loop ends with the ball still at y >= 0, which only the
\* iteration cap can cause, returns ConvergenceFailure with no result.
C7_CapIsConvergenceFailure ==
  pc = "done" /\ raised = "" /\ y >= 0 =>
    ret.status = "ConvergenceFailure" /\ ret.result = nullopt

\* the loop body ran MAX_ITERATIONS times and the ball is still in the air
C7_Witness ==
  /\ pc = "done"
  /\ raised = ""
  /\ bodyRuns = MAX_ITERATIONS
  /\ y > 0
  /\ ret.status = "ConvergenceFailure"

\* C8: ConvergenceFailure is returned only when the ball has not come down:
\* a call in which the ball reached y < 0 within MAX_ITERATIONS iterations
\* does not return ConvergenceFailure.
C8_ConvergenceFailureOnlyAloft ==
  pc = "done" /\ raised = "" /\ bodyRuns <= MAX_ITERATIONS /\ y < 0 =>
    ret.status # "ConvergenceFailure"

\* C9: the loop body runs at most MAX_ITERATIONS times in a call, and a call
\* that has entered its loop returns a value with one of the four statuses.
C9_Terminates ==
  /\ [](bodyRuns <= MAX_ITERATIONS)
  /\ [](pc = "done" => ret.status \in {"Success", "InvalidInput",
                                       "CalculationError", "ConvergenceFailure"})
  /\ (pc = "loop") ~> (pc = "done")

\* a call has returned after MAX_ITERATIONS runs of the loop body
C9_Witness == pc = "done" /\ bodyRuns = MAX_ITERATIONS

\* C10: calls with the same arguments return the same status, message and
\* trajectory, whatever calls were made before or between them.
C10_NoHiddenState ==
  \A i, j \in DOMAIN log : log[i].args = log[j].args => log[i].ret = log[j].ret

\* the same successful call made twice with a different successful call in
\* between
C10_Witness ==
  /\ Len(log) = 3
  /\ log[1].args = log[3].args
  /\ log[2].args # log[1].args
  /\ log[1].ret.status = "Success"
  /\ log[2].ret.status = "Success"
  /\ Len(log[1].ret.result[1].trajectory) = 2

C12_DistanceIsGroundCrossing ==
  pc = "done" /\ ret.status = "Success" =>
    LET r == ret.result[1]
        last == r.trajectory[Len(r.trajectory)]
    IN r.distance = last.x /\ last.y = 0

\* C13, as stated: every point of a returned trajectory after the first is
\* more than 0.1 m away, in x or in y, from the point before it.
C13_ReturnedPointsApart ==
  pc = "done" /\ ret.status = "Success" =>
    LET tr == ret.result[1].trajectory
    IN \A i \in 2..Len(tr) :
         \/ Abs(tr[i].x - tr[i - 1].x) > 1000000
         \/ Abs(tr[i].y - tr[i - 1].y) > 1000000

\* C13, amended: a point appended when two or more points are already
\* recorded is, at that moment, more than 0.1 m away in x or in y from the
\* last recorded point.
C13_AppendedPointsApart ==
  [][pc = "loop" /\ Len(result.trajectory) >= 2
     /\ Len(result'.trajectory) > Len(result.trajectory)
     => LET last == result.trajectory[Len(result.trajectory)]
        IN Abs(x' - last.x) > 1000000 \/ Abs(y' - last.y) > 1000000]_vars

\* a third point has been recorded during a flight
C13_Witness ==
  /\ pc = "loop"
  /\ Len(result.trajectory) >= 3
  /\ result.trajectory[Len(result.trajectory)] = TrajectoryPoint(x, y)

\* C14: while a call runs, a point that has been recorded stays in the
\* trajectory, in its place and unchanged.
C14_AppendOnly ==
  [][pc = "loop"
     => \A i \in 1..Len(result.trajectory) :
          /\ Len(result'.trajectory) >= i
          /\ result'.trajectory[i] = result.trajectory[i]]_vars

\* the largest y of the points of tr, as the test computes it (from 0.0)
RECURSIVE maxHeight(_)
maxHeight(tr) ==
  IF tr = <<>> THEN 0 ELSE Max(Head(tr).y, maxHeight(Tail(tr)))

\* C15: in a Success result apex is within 0.001 m of the largest y of the
\* returned trajectory points.
C15_ApexIsMaxReturnedY ==
  pc = "done" /\ ret.status = "Success" =>
    Abs(ret.result[1].apex - maxHeight(ret.result[1].trajectory)) <= 10000

(***************************************************************************)
(* Properties of the physics functions                                     *)
(***************************************************************************)
Called(fn) == probe.fn = fn /\ probe.out # <<>>

\* C16: calculateDragCoefficient does not increase with the Reynolds number,
\* is exactly BASE_DRAG_COEFFICIENT up to and at 4e4, and exactly half of it
\* from 4e5 on.
C16_DragCrisis ==
  Called("calculateDragCoefficient") =>
    /\ probe.in[1] <= probe.in[2] => probe.out[1] >= probe.out[2]
    /\ probe.in[1] <= CRITICAL_REYNOLDS => probe.out[1] = BASE_DRAG_COEFFICIENT
    /\ probe.in[1] >= TURBULENT_REYNOLDS
         => probe.out[1] = Mul(500000, BASE_DRAG_COEFFICIENT)

\* the function has been called at the two regime boundaries
C16_Witness ==
  /\ Called("calculateDragCoefficient")
  /\ probe.in = <<CRITICAL_REYNOLDS, TURBULENT_REYNOLDS>>
  /\ probe.out = <<470000, 235000>>

\* C17, as stated: for every initial spin and all times t2 > t1 >= 0 the
\* decayed spin at t1 is greater than the decayed spin at t2.
C17_StrictDecayForEverySpin ==
  Called("calculateSpinDecay") /\ 0 <= probe.in[2] /\ probe.in[2] < probe.in[3]
    => probe.out[1].v > probe.out[2].v

\* C17, amended: for S >= 0 and t2 > t1 >= 0 the decayed spin at t2 is not
\* greater than at t1; it is smaller when S > 0 and t2 is at least 1 ms
\* after t1 (times up to 10 s); for S = 0 it is 0 at every time.
C17_DecayOfPositiveSpin ==
  Called("calculateSpinDecay") /\ 0 <= probe.in[2] /\ probe.in[2] < probe.in[3]
    => /\ probe.out[1].k = "fin" /\ probe.out[2].k = "fin"
       /\ probe.out[1].v >= probe.out[2].v
       /\ probe.in[1] > 0 /\ probe.in[3] - probe.in[2] >= 1000
            => probe.out[1].v > probe.out[2].v
       /\ probe.in[1] = 0 => probe.out[1].v = 0 /\ probe.out[2].v = 0

\* a positive spin has been decayed to two times 1 ms apart
C17_Witness ==
  /\ Called("calculateSpinDecay")
  /\ probe.in = <<2500000, 1000000, 1001000>>
  /\ probe.out[1].v > probe.out[2].v

\* C18, as stated: at each layer boundary the temperatures 1 m below and
\* 1 m above differ by less than 0.1, and so do the pressures.
C18_ContinuousWithin01 ==
  Called("LayerTransitions") /\ probe.in[1] \in BoundaryAltitudes
    => /\ Abs(probe.out.tempBelow - probe.out.tempAbove) < 100000
       /\ Abs(probe.out.pressBelow - probe.out.pressAbove) < 100

\* C18, amended: at each layer boundary the temperatures 1 m below and 1 m
\* above differ by less than 0.1 K, and the pressures by less than 1% of the
\* pressure below.
C18_ContinuousWithin1Percent ==
  Called("LayerTransitions") /\ probe.in[1] \in BoundaryAltitudes
    => /\ Abs(probe.out.tempBelow - probe.out.tempAbove) < 100000
       /\ Abs(probe.out.pressBelow - probe.out.pressAbove)
            < probe.out.pressBelow \div 100

\* the transition at 11000 m has been probed: the pressures differ by
\* several Pa
C18_Witness ==
  /\ Called("LayerTransitions")
  /\ probe.in[1] = 11000
  /\ probe.out.pressBelow - probe.out.pressAbove > 5000

\* C19: for a ground-level wind w >= 0, getWindGradient does not decrease
\* with height, so at every height h >= 0 it is at least w.
C19_WindNotWeakerAloft ==
  Called("getWindGradient") /\ probe.in[1] >= 0 /\ probe.in[2] >= 0
    => /\ probe.out[1] >= probe.in[1]
       /\ probe.in[2] <= probe.in[3] => probe.out[1] <= probe.out[2]

\* C20: a call with initialSpeed = 0 and every other parameter in range
\* returns InvalidInput.
C20_ZeroSpeedRejected ==
  pc = "done" /\ args.initialSpeed = 0 /\ ~OutOfRange(args)
    => ret.status = "InvalidInput"

(***************************************************************************)
(* Properties of the launch monitors                                       *)
(***************************************************************************)
\* C21: startTracking returns true only when the monitor is connected and
\* not tracking, and then isTracking() is true afterwards; when it returns
\* false the connected and tracking flags are unchanged and no thread is
\* started.
C21_StartTrackingContract ==
  [][startTracking =>
       IF reply'.out = <<TRUE>>
       THEN isConnected /\ ~isTracking /\ isTracking'
       ELSE UNCHANGED <<connected_, tracking_, dataThread_, threads>>]_vars

\* startTracking has refused because the monitor was already tracking, its
\* thread still running
C21_Witness ==
  /\ reply.op = "startTracking" /\ reply.out = <<FALSE>>
  /\ isConnected /\ isTracking
  /\ dataThread_ # 0 /\ threads[dataThread_].pc = "push"

\* C22: getLastShot returns the shot that was enqueued last among those not
\* yet retrieved, and an empty optional only when the queue holds no shot.
C22_ReturnsMostRecentShot ==
  [][getLastShot =>
       IF dataQueue_ = <<>> THEN reply'.out = <<>>
       ELSE reply'.out = <<dataQueue_[Len(dataQueue_)]>>]_vars

\* C23: when configure(setting, value) returns true, getSetting(setting)
\* called next returns exactly value; when it returns false, getSetting
\* returns for every setting what it returned before the call.
C23_ConfigureRoundTrips ==
  [][/\ configureReturn =>
          getSettingOf(device, settings_', deviceIp_', devicePort_',
                       reply'.in[1]) = reply'.in[2]
     /\ configure /\ reply'.out = <<FALSE>> =>
          \A setting \in SettingNames :
            getSettingOf(device, settings_', deviceIp_', devicePort_', setting)
              = getSetting(setting)]_vars

(***************************************************************************)
(* Properties of the ground contact and of the time step                   *)
(***************************************************************************)
\* C24: on ground contact, with (xPrev, yPrev) the last simulated position
\* above ground and (xNew, yNew) the first one below, the final point is
\* (xPrev + yPrev / (yPrev - yNew) * (xNew - xPrev), 0), to within 1e-6 m,
\* and the point it replaces is the last simulated point (xNew, yNew).
C24_FinalPointInterpolatesLastSegment ==
  [][pc = "loop" /\ pc' = "done" /\ ret'.status = "Success"
     /\ y < 0 /\ prevY > 0
     => LET xNew == x
            xPrev == x - MulT(vx, timeStep)
            crossing == xPrev + Mul(Div(prevY, prevY - y), xNew - xPrev)
            size == Len(result.trajectory)
            final == result'.trajectory[size]
        IN /\ Len(result'.trajectory) = size
           /\ final.y = 0
           /\ Abs(final.x - crossing) <= 10
           /\ result.trajectory[size] = TrajectoryPoint(xNew, y)]_vars

\* C25: the time step of every integration step is
\* clamp(0.8 * previous + 0.2 * raw, 0.05 ms, 3 ms), where raw is 0.3 ms
\* times the five factors and previous is the time step of the step before
\* (0.3 ms before the first step); it lies in [0.05 ms, 3 ms] and is the one
\* the position, and under gravity alone the velocity, is advanced by.
C25_TimeStepSmoothedAndClamped ==
  [][pc = "loop" /\ pc' = "loop" /\ bodyRuns' = bodyRuns + 1
     => LET previous == IF bodyRuns = 0 THEN 300000 ELSE timeStep
            smoothed == Mul(800000, previous)
                        + Mul(200000, rawTimeStep(relativeSpeed))
        IN /\ timeStep' = Min(3000000, Max(50000, smoothed))
           /\ 50000 <= timeStep' /\ timeStep' <= 3000000
           /\ x' = x + MulT(vx', timeStep')
           /\ y' = y + MulT(vy', timeStep')
           /\ relativeSpeed <= 10000
                => vy' = vy - MulT(GRAVITY, 10 * timeStep')]_vars

\* a step has been taken with a smoothed time step between the lower limit
\* and the base time step
C25_Witness ==
  /\ pc = "loop" /\ bodyRuns >= 2
  /\ timeStep > MIN_TIMESTEP /\ timeStep < BASE_TIMESTEP
  /\ prevTimeStep = timeStep

Running == {t \in 1..MaxThreads : threads[t].pc \notin {"none", "done"}}

\* C28: between completed calls of connect, disconnect, startTracking and
\* stopTracking, isTracking() implies isConnected().
C28_TrackingImpliesConnected ==
  client.pc = "idle" /\ isTracking => isConnected

\* disconnect has returned after it stopped a tracking that had collected
\* shots
C28_Witness ==
  /\ client = Idle /\ reply.op = "disconnect" /\ reply.out = <<TRUE>>
  /\ ~isConnected /\ ~isTracking
  /\ shouldStop_ /\ Len(dataQueue_) = MaxQueue

\* C29: once stopTracking has returned the data-collection thread has
\* terminated: until the next successful startTracking no shot is enqueued;
\* and there is never more than one data-collection thread.
C29_NoCollectionAfterStop ==
  /\ [](Cardinality(Running) <= 1)
  /\ [](client.pc = "idle" /\ ~isTracking => Running = {})
  /\ [][~isTracking => Len(dataQueue_') <= Len(dataQueue_)]_vars

\* stopTracking has returned after joining a thread that had enqueued a shot
C29_Witness ==
  /\ client = Idle /\ reply.op = "stopTracking" /\ reply.out = <<TRUE>>
  /\ isConnected /\ ~isTracking /\ shouldStop_
  /\ dataQueue_ # <<>> /\ dataThread_ = 0

\* C30: while tracking is active no store of configure to a setting overlaps
\* a read of that setting by the data-collection thread.
C30_NoUnsynchronisedAccess ==
  \A t \in 1..MaxThreads :
    isTracking /\ t \in Running => ~Writing(ReadAt(threads[t].pc))

====
